---- MODULE Spec2Model ----
(***************************************************************************)
(* The synthetic data generator of ORMVsRawSQL: main() runs setupOltp and  *)
(* setupOlap one after the other; each drops and recreates its database,   *)
(* recreates the tables and loads them table by table with one bulk        *)
(* INSERT per batch of BATCH_SIZE rows.                                    *)
(*                                                                         *)
(* The row counts of the program (1,000,000 users, 200 products, ...) and  *)
(* its batch size (1000) are scaled down: a configuration is drawn in the  *)
(* initial state and never changes.  A stored row is represented by its    *)
(* generation index (i + j in the source), the id the store gives it is    *)
(* its position in the table.  The foreign keys sampled for the row pushed *)
(* last are kept in fk; the other random columns are not modelled there.   *)
(*                                                                         *)
(* The row generators whose values matter on their own are modelled apart  *)
(* (SpecGen): the dates of dim_date under the time zone of the process,    *)
(* the category and subcategory of a dim_product row, the email of a user  *)
(* or customer, and the amounts of a fact_sales row in IEEE-754 doubles.   *)
(* SpecRerun starts a run from what an earlier run left in the store,      *)
(* SpecLive adds the fairness of the event loop and of the store.          *)
(*                                                                         *)
(* After the two setups main() runs warmup() and the benchmark functions,  *)
(* each one step here.  The queries of the three access layers (raw SQL,   *)
(* Prisma, Drizzle) that the claims are about are modelled on their own    *)
(* rows: decrementStock with the store executing concurrent UPDATEs        *)
(* (SpecStock), getOrdersByUser after any inserts of orders and items      *)
(* (SpecOrders).                                                           *)
(***************************************************************************)
EXTENDS Integers, Sequences, FiniteSets, Bags, TLC

\* Bounds of the model (not program constants).
MaxBatch == 2
MaxTarget == 3
NumDays == 3
MaxEmailTotal == 12
RandBits == 5
MaxStock == 2
MaxAmount == 2
MaxStmts == 3

Datasets == {"oltp", "olap"}

\* A bug: products and dim_region are loaded after the tables that reference them.
TableOrderParentsLast(d) ==
  IF d = "oltp"
  THEN <<"users", "orders", "order_items", "products">>
  ELSE <<"dim_date", "dim_customer", "dim_product", "fact_sales", "dim_region">>

\* The order in which seed() loads the tables of a dataset.
TableOrder(d) ==
  IF d = "oltp"
  THEN <<"users", "products", "orders", "order_items">>
  ELSE <<"dim_date", "dim_region", "dim_customer", "dim_product", "fact_sales">>

TablesOf(d) == {TableOrder(d)[k] : k \in 1..Len(TableOrder(d))}

Tables == TablesOf("oltp") \cup TablesOf("olap")

DatasetOf(t) == IF t \in TablesOf("oltp") THEN "oltp" ELSE "olap"

\* The foreign-key columns of a table (its REFERENCES clauses).
FkCols(t) ==
  CASE t = "orders" -> {"user_id"}
    [] t = "order_items" -> {"order_id", "product_id"}
    [] t = "dim_customer" -> {"region_id"}
    [] t = "fact_sales" -> {"date_id", "customer_id", "product_id", "region_id"}
    [] OTHER -> {}

\* The table a foreign-key column references.
FkRef(t, c) ==
  CASE t = "orders" /\ c = "user_id" -> "users"
    [] t = "order_items" /\ c = "order_id" -> "orders"
    [] t = "order_items" /\ c = "product_id" -> "products"
    [] t = "dim_customer" /\ c = "region_id" -> "dim_region"
    [] t = "fact_sales" /\ c = "date_id" -> "dim_date"
    [] t = "fact_sales" /\ c = "customer_id" -> "dim_customer"
    [] t = "fact_sales" /\ c = "product_id" -> "dim_product"
    [] t = "fact_sales" /\ c = "region_id" -> "dim_region"

Refs(t) == {FkRef(t, c) : c \in FkCols(t)}

\* The products block of setup_db_oltp.ts has no batch loop: one INSERT.
Batched(t) == t # "products"

Min(a, b) == IF a < b THEN a ELSE b
Max(a, b) == IF a > b THEN a ELSE b

\* Array.prototype.slice(a, b) on a sequence (0-based, negative = from the end).
Slice(s, a, b) ==
  LET n == Len(s)
      from == IF a < 0 THEN Max(n + a, 0) ELSE Min(a, n)
      to == IF b < 0 THEN Max(n + b, 0) ELSE Min(b, n)
  IN  IF from < to THEN SubSeq(s, from + 1, to) ELSE << >>

\* dates: one entry per day from startDate to endDate (days since startDate).
Dates == [k \in 1..NumDays |-> k - 1]

VARIABLES
  BATCH_SIZE,  \* const BATCH_SIZE of seed()
  target,      \* table -> the row count its loop bound names
  mainPc,      \* where main() is
  pc,          \* dataset -> where its setupX() is
  tix,         \* dataset -> index in TableOrder of the table being loaded
  i,           \* dataset -> outer loop variable i
  params,      \* dataset -> generation indexes of the rows pushed into the batch
  fk,          \* dataset -> foreign keys sampled for the row pushed last
  tbl,         \* table -> stored rows in id order (id = position)
  dbExists,    \* dataset -> its database exists
  connected,   \* dataset -> seed()'s client is connected
  inflight,    \* client.query calls for bulk inserts that have not returned
  sent,        \* table -> the bulk inserts submitted so far, in order
  genPc,       \* which row generator is being exercised on its own
  tz,          \* the time zone of the process
  dateD,       \* the Date d of the loop that fills dates
  dates,       \* const dates: Date[]
  dateRows,    \* the dim_date rows pushed into params
  dimProduct,  \* the dim_product row pushed last
  emails,      \* two rows of users or dim_customer with their email
  factSale,    \* the fact_sales row pushed last, as the store holds it
  stock,       \* product id -> products.stock as committed
  stmts,       \* the decrementStock statements the store is executing
  issued,      \* how many statements of the query layers were issued
  orders,      \* the rows of orders in id order: user_id
  orderItems,  \* the rows of order_items in id order
  result       \* access layer -> what its getOrdersByUser returned last

genVars == <<genPc, tz, dateD, dates, dateRows, dimProduct, emails, factSale>>

runVars == <<BATCH_SIZE, target, mainPc, pc, tix, i, params, fk, tbl, dbExists,
             connected, inflight, sent>>

vars == <<BATCH_SIZE, target, mainPc, pc, tix, i, params, fk, tbl, dbExists,
          connected, inflight, sent, genPc, tz, dateD, dates, dateRows,
          dimProduct, emails, factSale, stock, stmts, issued, orders,
          orderItems, result>>

cfgVars == <<BATCH_SIZE, target>>

qryVars == <<stock, stmts, issued, orders, orderItems, result>>

\* The table a run is loading.
Cur(d) == TableOrder(d)[tix[d]]

\* The number of rows a table's load is to produce (dates.length for dim_date).
Total(t) == IF t = "dim_date" THEN Len(Dates) ELSE target[t]

\* A bug: the sampling range taken from the table's own row count.
FkMaxOwnTable(t, c) == Total(t)

\* The max of faker.number.int({min: 1, max}) for a foreign-key column.
FkMax(t, c) == Total(FkRef(t, c))

\* The target of every table from the row counts of the configuration.
MkTarget(a, q, b, c) ==
  [t \in Tables \ {"dim_date"} |->
     CASE t \in {"users", "dim_region", "dim_product"} -> a
       [] t = "products" -> q
       [] t \in {"orders", "dim_customer"} -> b
       [] t \in {"order_items", "fact_sales"} -> c]

\* The process runs in UTC.
Utc == [base |-> 0, from |-> 0, to |-> 0]

\* No row generator is exercised on its own: the state of a program run.
GenOff ==
  /\ genPc = "off"
  /\ tz = Utc
  /\ dateD = 0
  /\ dates = << >>
  /\ dateRows = << >>
  /\ dimProduct = << >>
  /\ emails = << >>
  /\ factSale = << >>

\* No query of the access layers is exercised on its own.
QryOff ==
  /\ stock = << >>
  /\ stmts = << >>
  /\ issued = 0
  /\ orders = << >>
  /\ orderItems = << >>
  /\ result = << >>

\* Rows left in every table by an earlier run.
StaleRows == <<-1>>

InitRest ==
  /\ mainPc = "setupOltp"
  /\ pc = [d \in Datasets |-> "idle"]
  /\ tix = [d \in Datasets |-> 1]
  /\ i = [d \in Datasets |-> 0]
  /\ params = [d \in Datasets |-> << >>]
  /\ fk = [d \in Datasets |-> << >>]
  /\ tbl = [t \in Tables |-> StaleRows]
  /\ dbExists = [d \in Datasets |-> TRUE]
  /\ connected = [d \in Datasets |-> FALSE]
  /\ inflight = {}
  /\ sent = [t \in Tables |-> << >>]
  /\ GenOff
  /\ QryOff

\* The configurations of the shape the program has: a positive batch size,
\* products fitting in one batch (200 <= 1000).
Init ==
  /\ BATCH_SIZE \in 1..MaxBatch
  /\ target \in {MkTarget(a, q, b, c) :
                   a \in 0..MaxTarget, q \in 1..BATCH_SIZE,
                   b \in 0..MaxTarget, c \in 0..MaxTarget}
  /\ InitRest

\* Any configuration, valid or not.
InitCfg ==
  /\ BATCH_SIZE \in (-1)..MaxBatch
  /\ target \in {MkTarget(a, q, b, c) :
                   a \in (-1)..MaxTarget, q \in (-1)..MaxTarget,
                   b \in (-1)..MaxTarget, c \in (-1)..MaxTarget}
  /\ InitRest

\* The tables an earlier run left behind when it was aborted after loading
\* rows into the first k tables of each dataset (k = 0: aborted before any
\* insert; k beyond the last table: completed).
PriorRows(k) ==
  [t \in Tables |->
     IF \E n \in 1..Min(k, Len(TableOrder(DatasetOf(t)))) :
          TableOrder(DatasetOf(t))[n] = t
     THEN StaleRows ELSE << >>]

MaxTables == Max(Len(TableOrder("oltp")), Len(TableOrder("olap")))

\* A run on a machine where no run was made before (no database), or after an
\* earlier run that completed or was aborted at any table.
InitRerun ==
  /\ BATCH_SIZE \in 1..MaxBatch
  /\ target \in {MkTarget(a, q, b, c) :
                   a \in 0..MaxTarget, q \in 1..BATCH_SIZE,
                   b \in 0..MaxTarget, c \in 0..MaxTarget}
  /\ mainPc = "setupOltp"
  /\ pc = [d \in Datasets |-> "idle"]
  /\ tix = [d \in Datasets |-> 1]
  /\ i = [d \in Datasets |-> 0]
  /\ params = [d \in Datasets |-> << >>]
  /\ fk = [d \in Datasets |-> << >>]
  /\ \/ /\ dbExists = [d \in Datasets |-> FALSE]
        /\ tbl = [t \in Tables |-> << >>]
     \/ /\ dbExists = [d \in Datasets |-> TRUE]
        /\ \E k \in 0..MaxTables : tbl = PriorRows(k)
  /\ connected = [d \in Datasets |-> FALSE]
  /\ inflight = {}
  /\ sent = [t \in Tables |-> << >>]
  /\ GenOff
  /\ QryOff

ValidConfig ==
  /\ BATCH_SIZE >= 1
  /\ \A t \in DOMAIN target : target[t] >= 0


\* i < target: the head of a table's batch loop.
OuterCond(t, iv) == iv < Total(t)

\* A bug: the inner loop does not stop at the target (no i + j < target).
InnerCondNoTargetCheck(t, iv, j) ==
  CASE t = "products" -> j < target[t]
    [] t = "dim_date" -> j < BATCH_SIZE
    [] OTHER -> j < BATCH_SIZE

\* The condition of the loop that pushes the rows of one batch (j rows pushed).
InnerCond(t, iv, j) ==
  CASE t = "products" -> j < target[t]
    [] t = "dim_date" -> j < Len(Slice(Dates, iv, iv + BATCH_SIZE))
    [] OTHER -> j < BATCH_SIZE /\ iv + j < target[t]

\* The generation index of the row pushed at position j of the batch at i.
GenIndex(t, iv, j) ==
  IF t = "dim_date" THEN Slice(Dates, iv, iv + BATCH_SIZE)[j + 1] ELSE iv + j

\* A bug: the loop steps by one row instead of one batch.
NextIByOne(iv) == iv + 1

\* i += BATCH_SIZE
NextI(iv) == iv + BATCH_SIZE

\* The values faker.number.int can return for the foreign keys of one row.
FkSamples(t) ==
  LET hi == IF FkCols(t) = {} THEN 0
            ELSE CHOOSE m \in {FkMax(t, c) : c \in FkCols(t)} :
                   \A c \in FkCols(t) : FkMax(t, c) <= m
  IN  {f \in [FkCols(t) -> 1..hi] : \A c \in FkCols(t) : f[c] <= FkMax(t, c)}

\* A bug: rows are put at the front of the batch (unshift).
PushFront(s, x) == <<x>> \o s

\* params.push / values.push: the row goes to the end of the batch.
Push(s, x) == Append(s, x)

\* Where a run goes when it enters a table's code.
EnterPc(t) == IF Batched(t) THEN "outer" ELSE "inner"

\* await setupX(): the promise of the run is resolved or rejected.
Settled(d) == pc[d] \in {"done", "failed"}

\* A bug: the query is not awaited.
ReturnedNoAwait(d) == TRUE

\* A bug: the promise of the query is never settled for the run.
ReturnedNever(d) == FALSE

\* await client.query(...): the bulk insert of the run has returned.
Returned(d) == \E m \in inflight : m.d = d /\ m.status # "sent"

\* A bug: the error of a query is caught and the loop goes on.
QueryErrorSwallowed == "outer"

\* An error thrown by an awaited query rejects seed() and setupX().
QueryErrorPc == "failed"

----------------------------------------------------------------------------
\* main()

MainSetupOltp ==
  /\ mainPc = "setupOltp"
  /\ mainPc' = "awaitOltp"
  /\ pc' = [pc EXCEPT !["oltp"] = "manageDatabase"]
  /\ UNCHANGED <<cfgVars, genVars, qryVars, tix, i, params, fk, tbl, dbExists, connected, inflight, sent>>

MainSetupOlap ==
  /\ mainPc = "awaitOltp"
  /\ Settled("oltp")
  /\ pc["oltp"] # "failed"
  /\ mainPc' = "awaitOlap"
  /\ pc' = [pc EXCEPT !["olap"] = "manageDatabase"]
  /\ UNCHANGED <<cfgVars, genVars, qryVars, tix, i, params, fk, tbl, dbExists, connected, inflight, sent>>

\* A bug: warmup() is called while setupOlap() is still running.
MainWarmupNoAwait ==
  /\ mainPc = "awaitOlap"
  /\ mainPc' = "warmup"
  /\ UNCHANGED <<cfgVars, genVars, qryVars, pc, tix, i, params, fk, tbl, dbExists, connected, inflight, sent>>

MainWarmup ==
  /\ mainPc = "awaitOlap"
  /\ Settled("olap")
  /\ pc["olap"] # "failed"
  /\ mainPc' = "warmup"
  /\ UNCHANGED <<cfgVars, genVars, qryVars, pc, tix, i, params, fk, tbl, dbExists, connected, inflight, sent>>

\* The functions main() awaits after the two setups, in statement order;
\* each connects to a database and issues its queries one after the other.
QuerySteps ==
  <<"warmup", "runOltpSql", "runOltpPrisma", "runOltpDrizzle",
    "runOlapSql", "runOlapPrisma", "runOlapDrizzle">>

\* The awaited function has returned: main() calls the next one.
MainBenchmarks(k) ==
  /\ k < Len(QuerySteps)
  /\ mainPc = QuerySteps[k]
  /\ mainPc' = QuerySteps[k + 1]
  /\ UNCHANGED <<cfgVars, genVars, qryVars, pc, tix, i, params, fk, tbl, dbExists, connected, inflight, sent>>

\* A connect or a query of the awaited function fails: nothing in warmup()
\* or in the run functions catches it, main() is rejected.
MainQueryFails(k) ==
  /\ mainPc = QuerySteps[k]
  /\ mainPc' = "rejected"
  /\ UNCHANGED <<cfgVars, genVars, qryVars, pc, tix, i, params, fk, tbl, dbExists, connected, inflight, sent>>

MainDone ==
  /\ mainPc = QuerySteps[Len(QuerySteps)]
  /\ mainPc' = "done"
  /\ UNCHANGED <<cfgVars, genVars, qryVars, pc, tix, i, params, fk, tbl, dbExists, connected, inflight, sent>>

\* A rejected setupX() rejects main(), which main().catch logs.
MainRejected ==
  /\ \/ mainPc = "awaitOltp" /\ Settled("oltp") /\ pc["oltp"] = "failed"
     \/ mainPc = "awaitOlap" /\ Settled("olap") /\ pc["olap"] = "failed"
  /\ mainPc' = "rejected"
  /\ UNCHANGED <<cfgVars, genVars, qryVars, pc, tix, i, params, fk, tbl, dbExists, connected, inflight, sent>>

----------------------------------------------------------------------------
\* setupOltp() / setupOlap(): manageDatabase() then seed()

\* A bug: CREATE TABLE without the DROP TABLE IF EXISTS before it, on a
\* database that was not recreated.
EmptiedNoDrop(d) == tbl

Emptied(d) == [t \in Tables |-> IF t \in TablesOf(d) THEN << >> ELSE tbl[t]]

\* manageDatabase(): connect outside the try; DROP and CREATE inside it.  An
\* error of either takes the run into the catch block.
ManageDatabase(d) ==
  /\ pc[d] = "manageDatabase"
  /\ \E outcome \in {"connectFails", "created", "dropFails", "createFails"} :
       CASE outcome = "connectFails" ->
              /\ pc' = [pc EXCEPT ![d] = "failed"]
              /\ UNCHANGED <<tbl, dbExists>>
         [] outcome = "created" ->
              /\ pc' = [pc EXCEPT ![d] = "connect"]
              /\ dbExists' = [dbExists EXCEPT ![d] = TRUE]
              /\ tbl' = Emptied(d)
         [] outcome = "dropFails" ->
              /\ pc' = [pc EXCEPT ![d] = "caught"]
              /\ UNCHANGED <<tbl, dbExists>>
         [] outcome = "createFails" ->
              /\ pc' = [pc EXCEPT ![d] = "caught"]
              /\ dbExists' = [dbExists EXCEPT ![d] = FALSE]
              /\ tbl' = Emptied(d)
  /\ UNCHANGED <<cfgVars, genVars, qryVars, mainPc, tix, i, params, fk, connected, inflight, sent>>

\* manageDatabase(): catch (err) { console.error } finally { client.end() };
\* manageDatabase returns normally and setupX() goes on to seed().
Caught(d) ==
  /\ pc[d] = "caught"
  /\ pc' = [pc EXCEPT ![d] = "connect"]
  /\ UNCHANGED <<cfgVars, genVars, qryVars, mainPc, tix, i, params, fk, tbl, dbExists, connected, inflight, sent>>

\* seed(): await client.connect()
Connect(d) ==
  /\ pc[d] = "connect"
  /\ \/ /\ dbExists[d]
        /\ connected' = [connected EXCEPT ![d] = TRUE]
        /\ pc' = [pc EXCEPT ![d] = "schema"]
     \/ /\ pc' = [pc EXCEPT ![d] = "failed"]
        /\ UNCHANGED connected
  /\ UNCHANGED <<cfgVars, genVars, qryVars, mainPc, tix, i, params, fk, tbl, dbExists, inflight, sent>>

\* seed(): the DROP TABLE IF EXISTS / CREATE TABLE script, then the first table.
Schema(d) ==
  /\ pc[d] = "schema"
  /\ \/ /\ tbl' = Emptied(d)
        /\ pc' = [pc EXCEPT ![d] = EnterPc(TableOrder(d)[1])]
     \/ /\ pc' = [pc EXCEPT ![d] = QueryErrorPc]
        /\ UNCHANGED tbl
  /\ UNCHANGED <<cfgVars, genVars, qryVars, mainPc, tix, i, params, fk, dbExists, connected, inflight, sent>>

\* The code after a table's load: the next table, or "Done!" and client.end().
AdvanceTable(d) ==
  IF tix[d] < Len(TableOrder(d))
  THEN /\ tix' = [tix EXCEPT ![d] = @ + 1]
       /\ i' = [i EXCEPT ![d] = 0]
       /\ pc' = [pc EXCEPT ![d] = EnterPc(TableOrder(d)[tix[d] + 1])]
       /\ UNCHANGED connected
  ELSE /\ pc' = [pc EXCEPT ![d] = "done"]
       /\ connected' = [connected EXCEPT ![d] = FALSE]
       /\ UNCHANGED <<tix, i>>

\* The loop head holds: a new batch is begun.
OuterEnter(d) ==
  /\ pc[d] = "outer"
  /\ OuterCond(Cur(d), i[d])
  /\ pc' = [pc EXCEPT ![d] = "inner"]
  /\ UNCHANGED <<cfgVars, genVars, qryVars, mainPc, tix, i, params, fk, tbl, dbExists, connected, inflight, sent>>

\* The loop head fails: the table is loaded.
OuterExit(d) ==
  /\ pc[d] = "outer"
  /\ ~OuterCond(Cur(d), i[d])
  /\ AdvanceTable(d)
  /\ UNCHANGED <<cfgVars, genVars, qryVars, mainPc, params, fk, tbl, dbExists, inflight, sent>>

\* One iteration of the inner loop: a row is generated and pushed.
GenRow(d) ==
  /\ pc[d] = "inner"
  /\ InnerCond(Cur(d), i[d], Len(params[d]))
  /\ \E f \in FkSamples(Cur(d)) :
       /\ fk' = [fk EXCEPT ![d] = f]
       /\ params' = [params EXCEPT ![d] =
                       Push(@, GenIndex(Cur(d), i[d], Len(params[d])))]
  /\ UNCHANGED <<cfgVars, genVars, qryVars, mainPc, pc, tix, i, tbl, dbExists, connected, inflight, sent>>

\* faker.number.int({min: 1, max}) throws when max < min.
FakerThrows(d) ==
  /\ pc[d] = "inner"
  /\ InnerCond(Cur(d), i[d], Len(params[d]))
  /\ \E c \in FkCols(Cur(d)) : FkMax(Cur(d), c) < 1
  /\ pc' = [pc EXCEPT ![d] = "failed"]
  /\ UNCHANGED <<cfgVars, genVars, qryVars, mainPc, tix, i, params, fk, tbl, dbExists, connected, inflight, sent>>

\* The inner loop is over: client.query(INSERT ... VALUES ..., params) is called.
Submit(d) ==
  /\ pc[d] = "inner"
  /\ ~InnerCond(Cur(d), i[d], Len(params[d]))
  /\ inflight' = inflight \cup
       {[d |-> d, t |-> Cur(d), rows |-> params[d], status |-> "sent"]}
  /\ sent' = [sent EXCEPT ![Cur(d)] = Append(@, params[d])]
  /\ pc' = [pc EXCEPT ![d] = "await"]
  /\ UNCHANGED <<cfgVars, genVars, qryVars, mainPc, tix, i, params, fk, tbl, dbExists, connected>>

\* The store executes a bulk insert: all its rows get the next ids.  An INSERT
\* with an empty VALUES list is a syntax error.
StoreOk(m) ==
  /\ m.status = "sent"
  /\ m.rows # << >>
  /\ tbl' = [tbl EXCEPT ![m.t] = @ \o m.rows]
  /\ inflight' = (inflight \ {m}) \cup {[m EXCEPT !.status = "ok"]}
  /\ UNCHANGED <<cfgVars, genVars, qryVars, mainPc, pc, tix, i, params, fk, dbExists, connected, sent>>

\* The store fails a bulk insert: the statement inserts nothing.
StoreError(m) ==
  /\ m.status = "sent"
  /\ inflight' = (inflight \ {m}) \cup {[m EXCEPT !.status = "error"]}
  /\ UNCHANGED <<cfgVars, genVars, qryVars, mainPc, pc, tix, i, params, fk, tbl, dbExists, connected, sent>>

Replies(d) == {m \in inflight : m.d = d /\ m.status # "sent"}

\* The awaited query returned: the next batch, or the code after the block.
ResumeOk(d) ==
  /\ pc[d] = "await"
  /\ Returned(d)
  /\ \A m \in Replies(d) : m.status = "ok"
  /\ inflight' = inflight \ Replies(d)
  /\ params' = [params EXCEPT ![d] = << >>]
  /\ fk' = [fk EXCEPT ![d] = << >>]
  /\ IF Batched(Cur(d))
     THEN /\ i' = [i EXCEPT ![d] = NextI(@)]
          /\ pc' = [pc EXCEPT ![d] = "outer"]
          /\ UNCHANGED <<tix, connected>>
     ELSE AdvanceTable(d)
  /\ UNCHANGED <<cfgVars, genVars, qryVars, mainPc, tbl, dbExists, sent>>

\* The awaited query threw.
ResumeError(d) ==
  /\ pc[d] = "await"
  /\ Returned(d)
  /\ \E m \in Replies(d) : m.status = "error"
  /\ inflight' = inflight \ Replies(d)
  /\ pc' = [pc EXCEPT ![d] = QueryErrorPc]
  /\ UNCHANGED <<cfgVars, genVars, qryVars, mainPc, tix, i, params, fk, tbl, dbExists, connected, sent>>

Next ==
  \/ MainSetupOltp
  \/ MainSetupOlap
  \/ MainWarmup
  \/ \E k \in 1..Len(QuerySteps) :
       \/ MainBenchmarks(k)
       \/ MainQueryFails(k)
  \/ MainDone
  \/ MainRejected
  \/ \E d \in Datasets :
       \/ ManageDatabase(d)
       \/ Caught(d)
       \/ Connect(d)
       \/ Schema(d)
       \/ OuterEnter(d)
       \/ OuterExit(d)
       \/ GenRow(d)
       \/ FakerThrows(d)
       \/ Submit(d)
       \/ ResumeOk(d)
       \/ ResumeError(d)
  \/ \E m \in inflight :
       \/ StoreOk(m)
       \/ StoreError(m)

Spec == Init /\ [][Next]_vars

SpecCfg == InitCfg /\ [][Next]_vars

SpecRerun == InitRerun /\ [][Next]_vars

\* Batch sizes >= 1 and targets >= 0: the smallest and the largest batch
\* size; any target for the tables loaded first; none or the largest for the
\* tables loaded last and for products, which may then exceed a batch.
InitValid ==
  /\ BATCH_SIZE \in {1, MaxBatch}
  /\ target \in {MkTarget(a, c, a, c) : a \in 0..MaxTarget, c \in {0, MaxTarget}}
  /\ InitRest

\* The event loop runs every continuation that is ready and the store answers
\* every query, one way or the other: a step that can be taken is taken.
SpecLive == InitValid /\ [][Next]_vars /\ WF_vars(Next)


----------------------------------------------------------------------------
\* The row generators of setup_db_olap.ts, taken on their own: the dates of
\* dim_date under the time zone of the process, a dim_product row, two emails.
\* Time is counted in hours since 1970-01-01T00:00Z, days in days since
\* 1970-01-01.

\* new Date("2022-01-01"): a date-only string is parsed as UTC midnight.
StartDay == 18993

startDate == StartDay * 24

\* new Date("2024-12-31"), scaled: the last of NumDays days.
endDate == (StartDay + NumDays - 1) * 24

\* Time zones: a standard UTC offset in hours and the UTC interval [from, to)
\* during which clocks are one hour ahead of it: never; from the second day
\* of the range to its third day; or from before the range to its second day
\* (a southern summer, or an offset the zone gave up for good).
Zones ==
  {[base |-> b, from |-> r[1], to |-> r[2]] :
     b \in (-12)..14,
     r \in {<<0, 0>>, <<startDate + 25, startDate + 49>>, <<0, startDate + 25>>}}

\* The UTC offset of zone z at instant x.
Offset(z, x) == z.base + (IF z.from <= x /\ x < z.to THEN 1 ELSE 0)

\* LocalTime(t) of ECMA-262.
LocalTime(z, x) == x + Offset(z, x)

\* UTC(t) of ECMA-262: a local time that occurs twice is the earlier instant,
\* one that is skipped is read with the offset before the transition.
UTC(z, lt) ==
  LET early == lt - z.base - 1
  IN  IF z.from <= early /\ early < z.to THEN early ELSE lt - z.base

\* The local calendar day of a Date (what getFullYear/getMonth/getDate read).
LocalDay(z, x) == LocalTime(z, x) \div 24

\* d.setDate(d.getDate() + n): the local day moves, the local time of day stays.
SetDate(z, x, n) ==
  UTC(z, (LocalDay(z, x) + n) * 24 + (LocalTime(z, x) % 24))

\* The calendar date (year, month 1..12, day) of a day number.
CivilFromDays(n) ==
  LET zz == n + 719468
      era == zz \div 146097
      doe == zz - era * 146097
      yoe == (doe - doe \div 1460 + doe \div 36524 - doe \div 146096) \div 365
      doy == doe - (365 * yoe + yoe \div 4 - yoe \div 100)
      mp == (5 * doy + 2) \div 153
      dd == doy - (153 * mp + 2) \div 5 + 1
      mm == IF mp < 10 THEN mp + 3 ELSE mp - 9
  IN  [y |-> yoe + era * 400 + (IF mm <= 2 THEN 1 ELSE 0), m |-> mm, d |-> dd]

\* The day number of a calendar date.
DaysFromCivil(c) ==
  LET yy == IF c.m <= 2 THEN c.y - 1 ELSE c.y
      era == yy \div 400
      yoe == yy - era * 400
      doy == (153 * (IF c.m > 2 THEN c.m - 3 ELSE c.m + 9) + 2) \div 5 + c.d - 1
      doe == yoe * 365 + yoe \div 4 - yoe \div 100 + doy
  IN  era * 146097 + doe - 719468

\* The weekday (0 = Sunday) of a day number; 1970-01-01 was a Thursday.
Weekday(n) == (n + 4) % 7

\* d.toISOString().split("T")[0]: the calendar date of the instant in UTC.
IsoDate(x) == CivilFromDays(x \div 24)

\* The values pushed into params for one Date of the batch.
DimDateRow(z, x) ==
  LET c == CivilFromDays(LocalDay(z, x))
      getMonth == c.m - 1
      dow == Weekday(LocalDay(z, x))
  IN  [full_date |-> IsoDate(x),
       year |-> c.y,
       quarter |-> getMonth \div 3 + 1,
       month |-> getMonth + 1,
       day |-> c.d,
       day_of_week |-> dow,
       is_weekend |-> (dow = 0 \/ dow = 6)]

\* for (let d = new Date(startDate); d <= endDate; d.setDate(d.getDate() + 1))
\*   dates.push(new Date(d))
PushDate ==
  /\ genPc = "dates"
  /\ dateD <= endDate
  /\ dates' = Append(dates, dateD)
  /\ dateD' = SetDate(tz, dateD, 1)
  /\ UNCHANGED <<runVars, qryVars, genPc, tz, dateRows, dimProduct, emails, factSale>>

\* d > endDate: the loop is left.
DatesDone ==
  /\ genPc = "dates"
  /\ dateD > endDate
  /\ genPc' = "rows"
  /\ UNCHANGED <<runVars, qryVars, tz, dateD, dates, dateRows, dimProduct, emails, factSale>>

\* The batch loops of dim_date: the row of the next Date is pushed.
PushDateRow ==
  /\ genPc = "rows"
  /\ Len(dateRows) < Len(dates)
  /\ dateRows' = Append(dateRows, DimDateRow(tz, dates[Len(dateRows) + 1]))
  /\ UNCHANGED <<runVars, qryVars, genPc, tz, dateD, dates, dimProduct, emails, factSale>>

\* Every Date has its row.
DateRowsDone ==
  /\ genPc = "rows"
  /\ Len(dateRows) = Len(dates)
  /\ genPc' = "end"
  /\ UNCHANGED <<runVars, qryVars, tz, dateD, dates, dateRows, dimProduct, emails, factSale>>

\* const categories, subcategories, brands of seed().
categories == <<"Electronics", "Clothing", "Home", "Sports", "Food">>

subcategories ==
  [Electronics |-> <<"Phones", "Laptops", "Tablets", "Accessories">>,
   Clothing |-> <<"Shirts", "Pants", "Shoes", "Outerwear">>,
   Home |-> <<"Furniture", "Kitchen", "Decor", "Lighting">>,
   Sports |-> <<"Equipment", "Apparel", "Footwear", "Accessories">>,
   Food |-> <<"Snacks", "Beverages", "Dairy", "Produce">>]

brands == <<"BrandA", "BrandB", "BrandC", "BrandD", "BrandE">>

\* arr[k] of JavaScript: undefined outside the array.
At(arr, k) == IF k + 1 \in DOMAIN arr THEN arr[k + 1] ELSE "undefined"

\* A bug: the index drawn up to the length of the list.
CatIndexMaxLength == Len(categories)

\* faker.number.int({ min: 0, max: 4 }) for the category.
CatIndexMax == 4

\* faker.number.int({ min: 0, max: 4 }) for the brand.
BrandIndexMax == 4

\* The category, subcategory and brand pushed for one dim_product row; subs
\* is undefined for an undefined category and subs.length then throws.
ProductRow ==
  /\ genPc = "product"
  /\ \E ci \in 0..CatIndexMax, bi \in 0..BrandIndexMax :
       LET cat == At(categories, ci)
       IN  IF cat \in DOMAIN subcategories
           THEN \E si \in 0..(Len(subcategories[cat]) - 1) :
                  dimProduct' = [ci |-> ci, si |-> si, category |-> cat,
                                 subcategory |-> At(subcategories[cat], si),
                                 brand |-> At(brands, bi)]
           ELSE dimProduct' = [ci |-> ci, si |-> -1, category |-> cat,
                               subcategory |-> "TypeError",
                               brand |-> At(brands, bi)]
  /\ genPc' = "end"
  /\ UNCHANGED <<runVars, qryVars, tz, dateD, dates, dateRows, emails, factSale>>

\* The characters of a number in a template literal: its decimal digits.
RECURSIVE NumberToString(_)
NumberToString(n) ==
  LET digit == <<"0", "1", "2", "3", "4", "5", "6", "7", "8", "9">>
  IN  IF n < 10 THEN <<digit[n + 1]>>
      ELSE NumberToString(n \div 10) \o <<digit[(n % 10) + 1]>>

\* What faker.internet.email() may return, as characters: any string.
FakerEmails ==
  UNION {[1..n -> {"0", "2", "_"}] : n \in 0..2}

\* The word before the index: user${...} and cust${...}.
EmailPrefix(t) ==
  IF t = "users" THEN <<"u", "s", "e", "r">> ELSE <<"c", "u", "s", "t">>

\* A bug: the index and the random part are not separated.
EmailNoSeparator(t, n, rnd) == EmailPrefix(t) \o NumberToString(n) \o rnd

\* `user${i + j}_${faker.internet.email()}`
Email(t, n, rnd) == EmailPrefix(t) \o NumberToString(n) \o <<"_">> \o rnd

\* The positions (i, j) the loops of a table of total rows visit with
\* batches of b rows.
LoopPositions(b, total) ==
  {p \in (0..total) \X (0..b) :
     /\ p[1] % b = 0
     /\ p[1] < total
     /\ p[2] < b /\ p[1] + p[2] < total}

\* Two rows of one load of users or dim_customer, each with its own draw of
\* the random part.
EmailPair ==
  /\ genPc = "emails"
  /\ \E t \in {"users", "dim_customer"}, b \in 1..MaxBatch :
       \E p \in LoopPositions(b, MaxEmailTotal), q \in LoopPositions(b, MaxEmailTotal) :
         \E r1 \in FakerEmails, r2 \in FakerEmails :
           emails' = <<[t |-> t, i |-> p[1], j |-> p[2],
                        email |-> Email(t, p[1] + p[2], r1)],
                       [t |-> t, i |-> q[1], j |-> q[2],
                        email |-> Email(t, q[1] + q[2], r2)]>>
  /\ genPc' = "end"
  /\ UNCHANGED <<runVars, qryVars, tz, dateD, dates, dateRows, dimProduct, factSale>>

\* Natural numbers of any size, as digits in base 4096 (12 bits), lowest
\* first with no leading zero: a double has 53 significant bits, the exact
\* product of two has 106.
RECURSIVE Big(_)
Big(n) == IF n = 0 THEN << >> ELSE <<n % 4096>> \o Big(n \div 4096)

\* The value of a number that fits an integer of the checker.
RECURSIVE Small(_)
Small(b) == IF b = << >> THEN 0 ELSE Head(b) + 4096 * Small(Tail(b))

RECURSIVE Trim(_)
Trim(b) ==
  IF b = << >> THEN << >>
  ELSE IF b[Len(b)] = 0 THEN Trim(SubSeq(b, 1, Len(b) - 1)) ELSE b

LimbAt(b, k) == IF k \in DOMAIN b THEN b[k] ELSE 0

\* a + b
BigAdd(a, b) ==
  LET n == (IF Len(a) > Len(b) THEN Len(a) ELSE Len(b)) + 1
      carry[k \in 0..n] ==
        IF k = 0 THEN 0
        ELSE (LimbAt(a, k) + LimbAt(b, k) + carry[k - 1]) \div 4096
  IN  Trim([k \in 1..n |-> (LimbAt(a, k) + LimbAt(b, k) + carry[k - 1]) % 4096])

\* a - b, for a >= b
BigSub(a, b) ==
  LET n == Len(a)
      borrow[k \in 0..n] ==
        IF k = 0 THEN 0
        ELSE IF LimbAt(a, k) - LimbAt(b, k) - borrow[k - 1] < 0 THEN 1 ELSE 0
  IN  Trim([k \in 1..n |->
              (LimbAt(a, k) - LimbAt(b, k) - borrow[k - 1] + 4096) % 4096])

\* a * b
BigMul(a, b) ==
  LET n == Len(a) + Len(b)
      col[k \in 1..n, j \in 0..Len(a)] ==
        IF j = 0 THEN 0 ELSE col[k, j - 1] + a[j] * LimbAt(b, k - j + 1)
      carry[k \in 0..n] ==
        IF k = 0 THEN 0 ELSE (col[k, Len(a)] + carry[k - 1]) \div 4096
  IN  Trim([k \in 1..n |-> (col[k, Len(a)] + carry[k - 1]) % 4096])

\* floor(a / d) and a mod d for a divisor d <= 4096, from the highest digit.
RECURSIVE BigDivMod(_, _)
BigDivMod(a, d) ==
  IF a = << >> THEN [q |-> << >>, r |-> 0]
  ELSE LET hi == BigDivMod(Tail(a), d)
           cur == 4096 * hi.r + Head(a)
       IN  [q |-> Trim(<<cur \div d>> \o hi.q), r |-> cur % d]

\* The number of bits of a.
BitLen(a) ==
  IF a = << >> THEN 0
  ELSE 12 * (Len(a) - 1) + CHOOSE k \in 1..12 : 2^(k - 1) <= a[Len(a)] /\ a[Len(a)] < 2^k

\* a * 2^s
ShiftLeft(a, s) ==
  IF a = << >> THEN << >>
  ELSE BigMul([k \in 1..(s \div 12) |-> 0] \o a, <<2^(s % 12)>>)

\* floor(a / 2^s)
ShiftRight(a, s) == BigDivMod(SubSeq(a, s \div 12 + 1, Len(a)), 2^(s % 12)).q

\* Bit p of a, bit 0 the lowest.
BitOf(a, p) == (LimbAt(a, p \div 12 + 1) \div 2^(p % 12)) % 2

\* a mod 2^s = 0
LowBitsZero(a, s) ==
  /\ \A k \in 1..(s \div 12) : LimbAt(a, k) = 0
  /\ LimbAt(a, s \div 12 + 1) % 2^(s % 12) = 0

\* The IEEE-754 double m * 2^e, m of exactly 53 bits (none for zero), nearest
\* to the exact value n * 2^e (plus a positive remainder below 2^e if
\* sticky): round to nearest, ties to even.
RoundToDouble(n, e, sticky) ==
  LET s == BitLen(n) - 53
  IN  IF n = << >> THEN [m |-> << >>, e |-> 0]
      ELSE IF s <= 0 THEN [m |-> ShiftLeft(n, -s), e |-> e + s]
      ELSE LET kept == ShiftRight(n, s)
               up == /\ BitOf(n, s - 1) = 1
                     /\ (sticky \/ ~LowBitsZero(n, s - 1) \/ BitOf(kept, 0) = 1)
               mm == IF up THEN BigAdd(kept, <<1>>) ELSE kept
           IN  IF BitLen(mm) > 53 THEN [m |-> ShiftRight(mm, 1), e |-> e + s + 1]
               ELSE [m |-> mm, e |-> e + s]

\* x * y in doubles
FloatMul(x, y) == RoundToDouble(BigMul(x.m, y.m), x.e + y.e, FALSE)

\* The double of an integer
FloatOfInt(n) == RoundToDouble(Big(n), 0, FALSE)

\* 1 - y in doubles, for 0 <= y < 1
OneMinus(y) ==
  IF y.m = << >> THEN FloatOfInt(1)
  ELSE RoundToDouble(BigSub(ShiftLeft(<<1>>, -y.e), y.m), y.e, FALSE)

\* parseFloat of a decimal with two places: the double nearest to cents / 100.
ParseFloat(cents) ==
  LET dm == BigDivMod(ShiftLeft(Big(cents), 64), 100)
  IN  RoundToDouble(dm.q, -64, dm.r # 0)

\* x.toFixed(2) for x >= 0, in hundredths: the integer n with n / 100 - x
\* closest to zero, the larger one of two.
ToFixed2(x) ==
  LET n == BigMul(x.m, Big(100))
  IN  IF x.e >= 0 THEN Small(ShiftLeft(n, x.e))
      ELSE Small(BigAdd(ShiftRight(n, -x.e), Big(BitOf(n, -x.e - 1))))

\* parseFloat((Math.random() * 0.3).toFixed(2)), r being Math.random().
Discount(r) == ParseFloat(ToFixed2(FloatMul(r, ParseFloat(30))))

\* parseFloat((qty * unitPrice * (1 - discount)).toFixed(2))
TotalAmount(qty, unitPrice, discount) ==
  ParseFloat(ToFixed2(FloatMul(FloatMul(FloatOfInt(qty), unitPrice),
                               OneMinus(discount))))

\* faker.number.int({ min: 1, max: 20 }) for the quantity.
QtyMax == 20

\* Prices faker.commerce.price({ min: 5, max: 500 }) may return, in cents.
Prices == {500, 502, 505, 999, 19999, 50000}

\* Values of Math.random(): the multiples of 2^-RandBits in [0, 1).
Randoms == {[m |-> FloatOfInt(k).m, e |-> FloatOfInt(k).e - RandBits] : k \in 0..(2^RandBits - 1)}

\* What a DECIMAL(n, 2) column holds for a number sent to it, in hundredths.
Decimal2(x) == ToFixed2(x)

\* The quantity, unit_price, discount and total_amount of one fact_sales row.
SaleRow ==
  /\ genPc = "sale"
  /\ \E qty \in 1..QtyMax, cents \in Prices, r \in Randoms :
       LET unitPrice == ParseFloat(cents)
           discount == Discount(r)
           total == TotalAmount(qty, unitPrice, discount)
       IN  factSale' = [quantity |-> qty,
                        unit_price |-> Decimal2(unitPrice),
                        discount |-> Decimal2(discount),
                        total_amount |-> Decimal2(total)]
  /\ genPc' = "end"
  /\ UNCHANGED <<runVars, qryVars, tz, dateD, dates, dateRows, dimProduct, emails>>

\* One generator is picked; the dates are generated under any time zone.
InitGen ==
  /\ BATCH_SIZE = 1
  /\ target = MkTarget(0, 1, 0, 0)
  /\ mainPc = "setupOltp"
  /\ pc = [d \in Datasets |-> "idle"]
  /\ tix = [d \in Datasets |-> 1]
  /\ i = [d \in Datasets |-> 0]
  /\ params = [d \in Datasets |-> << >>]
  /\ fk = [d \in Datasets |-> << >>]
  /\ tbl = [t \in Tables |-> << >>]
  /\ dbExists = [d \in Datasets |-> FALSE]
  /\ connected = [d \in Datasets |-> FALSE]
  /\ inflight = {}
  /\ sent = [t \in Tables |-> << >>]
  /\ genPc \in {"dates", "product", "emails", "sale"}
  /\ tz \in IF genPc = "dates" THEN Zones ELSE {Utc}
  /\ dateD = startDate
  /\ dates = << >>
  /\ dateRows = << >>
  /\ dimProduct = << >>
  /\ emails = << >>
  /\ factSale = << >>
  /\ QryOff

NextGen ==
  \/ PushDate
  \/ DatesDone
  \/ PushDateRow
  \/ DateRowsDone
  \/ ProductRow
  \/ EmailPair
  \/ SaleRow

SpecGen == InitGen /\ [][NextGen]_vars

----------------------------------------------------------------------------
\* The text and the parameters of a bulk INSERT.

\* The column list of the INSERT statement of a table.
Columns(t) ==
  CASE t = "users" -> <<"email", "name">>
    [] t = "products" -> <<"name", "price", "stock">>
    [] t = "orders" -> <<"user_id", "total_price", "status">>
    [] t = "order_items" -> <<"order_id", "product_id", "quantity">>
    [] t = "dim_date" -> <<"full_date", "year", "quarter", "month", "day",
                           "day_of_week", "is_weekend">>
    [] t = "dim_region" -> <<"country", "state", "city">>
    [] t = "dim_customer" -> <<"name", "email", "segment", "region_id">>
    [] t = "dim_product" -> <<"name", "category", "subcategory", "brand",
                              "unit_cost">>
    [] t = "fact_sales" -> <<"date_id", "customer_id", "product_id",
                             "region_id", "quantity", "unit_price",
                             "discount", "total_amount">>

\* What the values pushed into params for one row are, in the order pushed.
Pushed(t) ==
  CASE t = "users" -> <<"email", "name">>
    [] t = "products" -> <<"name", "price", "stock">>
    [] t = "orders" -> <<"user_id", "total_price", "status">>
    [] t = "order_items" -> <<"order_id", "product_id", "quantity">>
    [] t = "dim_date" -> <<"full_date", "year", "quarter", "month", "day",
                           "day_of_week", "is_weekend">>
    [] t = "dim_region" -> <<"country", "state", "city">>
    [] t = "dim_customer" -> <<"name", "email", "segment", "region_id">>
    [] t = "dim_product" -> <<"name", "category", "subcategory", "brand",
                              "unit_cost">>
    [] t = "fact_sales" -> <<"date_id", "customer_id", "product_id",
                             "region_id", "quantity", "unit_price",
                             "discount", "total_amount">>

\* A bug: idx advances by one placeholder less than a row has.
StrideShort(t) == Len(Columns(t)) - 1

\* const idx = j * Stride
Stride(t) ==
  CASE t = "users" -> 2
    [] t \in {"products", "orders", "order_items", "dim_region"} -> 3
    [] t = "dim_customer" -> 4
    [] t = "dim_product" -> 5
    [] t = "dim_date" -> 7
    [] t = "fact_sales" -> 8

\* The offsets of the placeholders of a row: ($${idx + 1}, $${idx + 2}, ...).
PlaceholderOffsets(t) ==
  CASE t = "users" -> <<1, 2>>
    [] t \in {"products", "orders", "order_items", "dim_region"} -> <<1, 2, 3>>
    [] t = "dim_customer" -> <<1, 2, 3, 4>>
    [] t = "dim_product" -> <<1, 2, 3, 4, 5>>
    [] t = "dim_date" -> <<1, 2, 3, 4, 5, 6, 7>>
    [] t = "fact_sales" -> <<1, 2, 3, 4, 5, 6, 7, 8>>

\* The statement of a batch: values holds, per row, the numbers of its
\* placeholders; params the values bound, each with the row it was
\* generated for.
BulkInsert(t, rows) ==
  [values |-> [n \in DOMAIN rows |->
                 [c \in DOMAIN PlaceholderOffsets(t) |->
                    (n - 1) * Stride(t) + PlaceholderOffsets(t)[c]]],
   params |-> [k \in 1..(Len(rows) * Len(Pushed(t))) |->
                 [row |-> rows[(k - 1) \div Len(Pushed(t)) + 1],
                  value |-> Pushed(t)[((k - 1) % Len(Pushed(t))) + 1]]]]

----------------------------------------------------------------------------
\* Helpers of the properties

RECURSIVE Flatten(_)
\* The rows of a sequence of batches, in order.
Flatten(bs) == IF bs = << >> THEN << >> ELSE Head(bs) \o Flatten(Tail(bs))

\* The generation indexes 0 .. n-1 in order.
Iota(n) == [k \in 1..n |-> k - 1]

Ceil(n, b) == (n + b - 1) \div b

TableIndex(t) ==
  CHOOSE k \in 1..Len(TableOrder(DatasetOf(t))) : TableOrder(DatasetOf(t))[k] = t

\* The run has left the code that loads t.
Loaded(t) == pc[DatasetOf(t)] = "done" \/ tix[DatasetOf(t)] > TableIndex(t)

\* The run holds a freshly sampled row of table t.
Sampled(d) == pc[d] \in {"inner", "await"} /\ DOMAIN fk[d] # {}

----------------------------------------------------------------------------
\* C1: every foreign key sampled for a row of a dependent table lies in
\* [1, N], N being the number of rows the referenced table holds at that
\* moment; no value references a row that has not been inserted.
C1_FkInRange ==
  \A d \in Datasets :
    DOMAIN fk[d] # {} =>
      /\ DOMAIN fk[d] = FkCols(Cur(d))
      /\ \A c \in DOMAIN fk[d] :
           /\ fk[d][c] >= 1
           /\ fk[d][c] <= Len(tbl[FkRef(Cur(d), c)])
           /\ tbl[FkRef(Cur(d), c)][fk[d][c]] = fk[d][c] - 1

\* A fact_sales row whose four foreign keys are the last ids of the dimensions,
\* and an order_items row sampled before it.
C1_Witness ==
  /\ Sampled("olap")
  /\ Cur("olap") = "fact_sales"
  /\ \A c \in FkCols("fact_sales") :
       /\ fk["olap"][c] = Len(tbl[FkRef("fact_sales", c)])
       /\ fk["olap"][c] >= 2
  /\ sent["order_items"] # << >>


----------------------------------------------------------------------------
\* C2: the first batch of a dependent table is issued only after the last
\* batch of every table it references has completed: once a bulk insert of t
\* has been submitted, every table t references holds all its rows and has no
\* bulk insert outstanding.
C2_ParentsLoadedFirst ==
  \A t \in Tables :
    sent[t] # << >> =>
      \A r \in Refs(t) :
        /\ tbl[r] = Iota(Total(r))
        /\ Len(sent[r]) = (IF Batched(r) THEN Ceil(Total(r), BATCH_SIZE) ELSE 1)
        /\ \A m \in inflight : m.t # r

\* Both leaf tables have begun, their parents loaded in more than one batch.
C2_Witness ==
  /\ sent["order_items"] # << >>
  /\ sent["fact_sales"] # << >>
  /\ Len(sent["orders"]) >= 2
  /\ Len(sent["dim_customer"]) >= 2

----------------------------------------------------------------------------
\* C3: when a run completes (no store failure), every table of the dataset
\* holds exactly its target row count, for any batch size >= 1 and any
\* target >= 0.
C3_ExactRowCount ==
  \A d \in Datasets :
    (ValidConfig /\ pc[d] = "done") =>
      \A t \in TablesOf(d) : Len(tbl[t]) = Total(t)

\* A completed run with a target below one batch, a target that is no
\* multiple of the batch size, and products larger than one batch.
C3_Witness ==
  /\ pc["oltp"] = "done"
  /\ pc["olap"] = "done"
  /\ BATCH_SIZE = 2
  /\ target["users"] = 1
  /\ target["products"] = 3
  /\ target["fact_sales"] = 3
  /\ Len(tbl["fact_sales"]) = 3

----------------------------------------------------------------------------
\* C4: the bulk inserts submitted for a table partition [0, target) into
\* consecutive batches of 1..BATCH_SIZE rows, every batch but the last one
\* full, every index in exactly one batch, and a loaded table has had exactly
\* ceil(target / BATCH_SIZE) bulk inserts.
C4_BatchPartition ==
  \A t \in Tables :
    /\ \A k \in 1..Len(sent[t]) :
         /\ Len(sent[t][k]) >= 1
         /\ Len(sent[t][k]) <= BATCH_SIZE
         /\ k < Len(sent[t]) => Len(sent[t][k]) = BATCH_SIZE
    /\ Len(Flatten(sent[t])) <= Total(t)
    /\ Flatten(sent[t]) = Iota(Len(Flatten(sent[t])))
    /\ Len(sent[t]) <= Ceil(Total(t), BATCH_SIZE)
    /\ Loaded(t) =>
         /\ Flatten(sent[t]) = Iota(Total(t))
         /\ Len(sent[t]) = Ceil(Total(t), BATCH_SIZE)

\* fact_sales loaded in two batches, the last one partial; products in one
\* batch smaller than the batch size.
C4_Witness ==
  /\ Loaded("fact_sales")
  /\ BATCH_SIZE = 2
  /\ Len(sent["fact_sales"]) = 2
  /\ Len(sent["fact_sales"][2]) = 1
  /\ Len(sent["products"]) = 1
  /\ Len(sent["products"][1]) = 1

----------------------------------------------------------------------------
\* C5: once a batch flush has failed, no further bulk insert is submitted for
\* any table of the dataset (the failed batch is not retried), and the run
\* ends rejected and stays so: it never reports success.
C5_Step ==
  \A d \in Datasets :
    /\ (\E m \in inflight : m.d = d /\ m.status = "error") =>
         /\ pc'[d] \in {"await", "failed"}
         /\ \A t \in TablesOf(d) : sent'[t] = sent[t] /\ tbl'[t] = tbl[t]
    /\ pc[d] = "failed" =>
         /\ pc'[d] = "failed"
         /\ \A t \in TablesOf(d) : sent'[t] = sent[t] /\ tbl'[t] = tbl[t]
         /\ \A m \in inflight' : m.d # d

C5_FailureStopsRun == [][C5_Step]_vars

\* The second batch of orders failed: the run is rejected with orders partly
\* loaded and order_items never begun.
C5_Witness ==
  /\ pc["oltp"] = "failed"
  /\ Cur("oltp") = "orders"
  /\ Len(sent["orders"]) = 2
  /\ tbl["orders"] = sent["orders"][1]
  /\ Len(tbl["orders"]) < Total("orders")
  /\ sent["order_items"] = << >>
  /\ mainPc = "rejected"


----------------------------------------------------------------------------
\* C6: with a store that assigns ids contiguously from 1, the row with
\* generation index k gets id k + 1: every table this run has inserted into
\* holds, at id k + 1, the row generated k-th, and a completed run leaves ids
\* exactly 1..target.
C6_IdIsIndexPlusOne ==
  \A t \in Tables :
    sent[t] # << >> =>
      /\ \A id \in 1..Len(tbl[t]) : tbl[t][id] = id - 1
      /\ pc[DatasetOf(t)] = "done" => DOMAIN tbl[t] = 1..Total(t)

\* A table loaded in two batches of two and one rows.
C6_Witness ==
  /\ pc["olap"] = "done"
  /\ Len(sent["dim_customer"]) = 2
  /\ tbl["dim_customer"] = <<0, 1, 2>>
  /\ tbl["dim_date"] = Dates

----------------------------------------------------------------------------
\* C7: a run reports its dataset populated only if every bulk insert of every
\* table of the dataset was stored: then each table holds the rows of all the
\* batches submitted, none missing, none outstanding, and not fewer than its
\* target.
C7_PopulatedOnlyIfAllFlushed ==
  \A d \in Datasets :
    pc[d] = "done" =>
      /\ \A t \in TablesOf(d) :
           /\ tbl[t] = Flatten(sent[t])
           /\ Len(tbl[t]) >= Total(t)
      /\ \A m \in inflight : m.d # d

\* Both datasets reported populated after multi-batch loads.
C7_Witness ==
  /\ pc["oltp"] = "done"
  /\ pc["olap"] = "done"
  /\ Len(sent["order_items"]) = 3
  /\ Len(sent["fact_sales"]) = 3
  /\ mainPc = "done"

----------------------------------------------------------------------------
\* C8: at most one bulk insert is outstanding at any time, over both runs
\* started from main; while it is, its run waits for it: the batch it holds
\* is the one submitted, and no further batch is built or submitted.
C8_OneFlushInFlight ==
  /\ Cardinality(inflight) <= 1
  /\ \A m \in inflight :
       /\ pc[m.d] = "await"
       /\ Cur(m.d) = m.t
       /\ params[m.d] = m.rows
       /\ m.rows = sent[m.t][Len(sent[m.t])]
       /\ \A e \in Datasets \ {m.d} : pc[e] \in {"idle", "done"}

\* The second batch of fact_sales is outstanding, the first one stored.
C8_Witness ==
  \E m \in inflight :
    /\ m.t = "fact_sales"
    /\ m.status = "sent"
    /\ Len(sent["fact_sales"]) = 2
    /\ Len(tbl["fact_sales"]) = BATCH_SIZE
    /\ pc["oltp"] = "done"

----------------------------------------------------------------------------
\* C9: a flush is all-or-nothing: when the flush of batch k of a table has
\* failed, the table holds exactly the rows of batches 0..k-1
\* (k * BATCH_SIZE rows) and no row of batch k.
C9_FailedFlushInsertsNothing ==
  \A m \in inflight :
    m.status = "error" =>
      LET k == Len(sent[m.t]) - 1
      IN  /\ tbl[m.t] = Flatten(SubSeq(sent[m.t], 1, k))
          /\ Len(tbl[m.t]) = k * BATCH_SIZE
          /\ \A j \in 1..Len(m.rows) :
               \A id \in 1..Len(tbl[m.t]) : tbl[m.t][id] # m.rows[j]

\* The flush of batch 1 of order_items failed after batch 0 was stored.
C9_Witness ==
  \E m \in inflight :
    /\ m.status = "error"
    /\ m.t = "order_items"
    /\ Len(sent["order_items"]) = 2
    /\ Len(m.rows) >= 1
    /\ Len(tbl["order_items"]) = BATCH_SIZE

----------------------------------------------------------------------------
----------------------------------------------------------------------------
\* C11: every error the store raises during a run (database drop/create,
\* schema creation, a batch flush) propagates out of setupX(): the step after
\* the error rejects the run, no step catches it and goes on.
C11_Step ==
  \A d \in Datasets :
    (pc[d] = "caught" \/ \E m \in inflight : m.d = d /\ m.status = "error")
      => pc'[d] = "failed"

C11_StoreErrorsPropagate == [][C11_Step]_vars


----------------------------------------------------------------------------
\* C12: a run empties every table of its dataset before it inserts any row,
\* so whatever an earlier run (none, completed, aborted at any table) left
\* behind, a completed run ends in the state of a first run: every table holds
\* exactly the rows of indexes 0 .. target-1 under the ids 1 .. target, and no
\* row of the earlier run.
C12_RerunSameAsFirstRun ==
  \A d \in Datasets :
    /\ (\E t \in TablesOf(d) : sent[t] # << >>) =>
         \A u \in TablesOf(d) : \A k \in DOMAIN tbl[u] : tbl[u][k] >= 0
    /\ pc[d] = "done" =>
         \A t \in TablesOf(d) : tbl[t] = [id \in 1..Total(t) |-> id - 1]

\* The OLTP run completed after an earlier run that had loaded every table:
\* the OLAP tables, not yet rebuilt, still hold the earlier rows.
C12_Witness ==
  /\ pc["oltp"] = "done"
  /\ tbl["users"] = <<0, 1>>
  /\ tbl["order_items"] = <<0, 1, 2>>
  /\ tbl["fact_sales"] = StaleRows


----------------------------------------------------------------------------
\* C13: whatever the time zone of the process, the dim_date load produces
\* exactly one row per calendar day from the start date to the end date: as
\* many rows as days, the full_date of row k being the k-th day of the range
\* (consecutive days, no duplicate, no gap).
C13_OneRowPerCalendarDay ==
  genPc = "end" /\ dates # << >> =>
    /\ Len(dateRows) = NumDays
    /\ \A k \in DOMAIN dateRows :
         dateRows[k].full_date = CivilFromDays(StartDay + k - 1)

----------------------------------------------------------------------------
\* C14: whatever the time zone of the process, in every dim_date row the
\* year, quarter, month, day and day_of_week are those of the row's stored
\* full_date, with quarter = floor((month - 1) / 3) + 1, and is_weekend holds
\* exactly when the weekday of full_date is Saturday or Sunday.
C14_FieldsOfFullDate ==
  \A k \in DOMAIN dateRows :
    LET r == dateRows[k]
        wd == Weekday(DaysFromCivil(r.full_date))
    IN  /\ r.year = r.full_date.y
        /\ r.month = r.full_date.m
        /\ r.day = r.full_date.d
        /\ r.quarter = (r.month - 1) \div 3 + 1
        /\ r.day_of_week = wd
        /\ r.is_weekend <=> wd \in {0, 6}

----------------------------------------------------------------------------
\* C16: for every outcome of the two random index draws, the category index
\* and the subcategory index of a dim_product row lie within their lists and
\* the subcategory pushed is one of the subcategories of the row's category.
C16_SubcategoryOfCategory ==
  dimProduct # << >> =>
    /\ dimProduct.ci \in 0..(Len(categories) - 1)
    /\ dimProduct.category \in DOMAIN subcategories
    /\ dimProduct.si \in 0..(Len(subcategories[dimProduct.category]) - 1)
    /\ \E n \in DOMAIN subcategories[dimProduct.category] :
         subcategories[dimProduct.category][n] = dimProduct.subcategory

\* The last category with its last subcategory, a name two categories share.
C16_Witness ==
  /\ dimProduct # << >>
  /\ dimProduct.ci = 3
  /\ dimProduct.si = 3
  /\ dimProduct.category = "Sports"
  /\ dimProduct.subcategory = "Accessories"

----------------------------------------------------------------------------
\* C17: two different rows of users (or of dim_customer) have different
\* indexes i + j, and emails built from different indexes are different
\* strings whatever the random parts are.
C17_EmailsDistinct ==
  emails # << >> =>
    (<<emails[1].i, emails[1].j>> # <<emails[2].i, emails[2].j>> =>
       /\ emails[1].i + emails[1].j # emails[2].i + emails[2].j
       /\ emails[1].email # emails[2].email)

\* Rows 1 and 10 with random parts that make the digits after "user" agree:
\* user1_0_ and user10__.
C17_Witness ==
  /\ emails # << >>
  /\ emails[1].i + emails[1].j = 1
  /\ emails[2].i + emails[2].j = 10
  /\ emails[1].email = <<"u", "s", "e", "r", "1", "_", "0", "_">>
  /\ emails[2].email = <<"u", "s", "e", "r", "1", "0", "_", "_">>


----------------------------------------------------------------------------
\* C15: in every fact_sales row the stored total_amount is
\* quantity * unit_price * (1 - discount) rounded to two places (half up),
\* computed from the quantity, unit_price and discount the same row stores,
\* and the stored discount lies in [0, 0.3].  Amounts are in hundredths, so
\* the exact product is quantity * unit_price * (100 - discount) / 100.
C15_TotalIsRoundedProduct ==
  factSale # << >> =>
    /\ factSale.total_amount =
         (factSale.quantity * factSale.unit_price * (100 - factSale.discount) + 50)
           \div 100
    /\ factSale.discount \in 0..30


----------------------------------------------------------------------------
\* C18: in every bulk insert the number of bound parameters is rows x columns
\* of the table, the placeholders are $1 .. $(rows x columns), each once and
\* in order, and the placeholder of row j, column c is j x columns + c + 1 and
\* is bound to the value generated for row j, column c.
C18_PlaceholdersMatchParams ==
  \A m \in inflight :
    LET st == BulkInsert(m.t, m.rows)
        cols == Len(Columns(m.t))
    IN  /\ Len(st.params) = Len(m.rows) * cols
        /\ Flatten(st.values) = [k \in 1..(Len(m.rows) * cols) |-> k]
        /\ \A j \in 0..(Len(m.rows) - 1) : \A c \in 0..(cols - 1) :
             /\ st.values[j + 1][c + 1] = j * cols + c + 1
             /\ st.params[j * cols + c + 1] =
                  [row |-> m.rows[j + 1], value |-> Columns(m.t)[c + 1]]

\* Bulk inserts of two rows for order_items and for fact_sales.
C18_Witness ==
  /\ \E m \in inflight : m.t = "fact_sales" /\ Len(m.rows) = 2
  /\ Len(sent["order_items"]) = 2
  /\ Len(sent["order_items"][1]) = 2
  /\ Len(sent["dim_date"]) >= 1


----------------------------------------------------------------------------
\* C19: every connection a run opens is closed on every path on which the
\* run ends, the paths where the schema script or a bulk insert fails
\* included: no run has ended with its connection open.
C19_ConnectionsClosed ==
  \A d \in Datasets : Settled(d) => ~connected[d]


----------------------------------------------------------------------------
\* C20: for any batch size >= 1 and any targets >= 0, if the store answers
\* every query, the load of every table terminates and every run ends: from
\* some moment on a run that was started is for ever either in success, every
\* table of its dataset holding its full target count, or in failure.  No run
\* stays in between, in the loop of a table or with a table partly loaded.
C20_RunEnds ==
  \A d \in Datasets :
    <>[](\/ pc[d] = "idle" /\ mainPc = "rejected"
         \/ pc[d] = "failed"
         \/ pc[d] = "done" /\ \A t \in TablesOf(d) : Len(tbl[t]) = Total(t))

\* A run ended in success after a table took three bulk inserts and products
\* more than one batch's worth of rows.
C20_Witness ==
  /\ pc["oltp"] = "done"
  /\ BATCH_SIZE = 1
  /\ target["products"] = 3
  /\ Len(sent["order_items"]) = 3
  /\ Len(tbl["order_items"]) = 3
  /\ mainPc = "awaitOlap"

----------------------------------------------------------------------------
\* C21: main() runs its steps strictly in the order setupOltp, setupOlap,
\* warmup, the OLTP benchmarks (raw SQL, Prisma, Drizzle), the OLAP
\* benchmarks (raw SQL, Prisma, Drizzle): every move of main() is to the
\* next step of that order or to rejection; no warmup or benchmark query is
\* issued before both datasets are reported populated; and if either setup
\* failed none is issued at all.
C21_Order ==
  <<"setupOltp", "awaitOltp", "awaitOlap", "warmup",
    "runOltpSql", "runOltpPrisma", "runOltpDrizzle",
    "runOlapSql", "runOlapPrisma", "runOlapDrizzle", "done">>

C21_Querying(p) == \E k \in 4..10 : C21_Order[k] = p

C21_Step ==
  /\ mainPc' # mainPc =>
        \/ mainPc' = "rejected"
        \/ \E k \in 1..(Len(C21_Order) - 1) :
             mainPc = C21_Order[k] /\ mainPc' = C21_Order[k + 1]
  /\ C21_Querying(mainPc') =>
        \A d \in Datasets :
          /\ pc'[d] = "done"
          /\ \A t \in TablesOf(d) : Len(tbl'[t]) = Total(t)
  /\ (\E d \in Datasets : pc'[d] = "failed") => ~C21_Querying(mainPc')

C21_StepsInOrder == [][C21_Step]_vars

\* The last benchmark function is running after both datasets were loaded
\* in two batches per table.
C21_Witness ==
  /\ mainPc = "runOlapDrizzle"
  /\ pc["oltp"] = "done"
  /\ pc["olap"] = "done"
  /\ BATCH_SIZE = 2
  /\ Len(sent["order_items"]) = 2
  /\ Len(sent["fact_sales"]) = 2

----------------------------------------------------------------------------
\* decrementStock of the three access layers, and the store executing it.

Layers == {"sql", "prisma", "drizzle"}

\* The ids of the rows of products (200 rows in the program).
ProductIds == {1, 2}

\* The row of products with id p, as committed.
ProductsRow(p) == [id |-> p, stock |-> stock[p]]

\* UPDATE products SET stock = stock - $2 WHERE id = $1 AND stock >= $2
SqlWhere(row, id, amount) == row.id = id /\ row.stock >= amount

SqlSet(row, amount) == row.stock - amount

\* A bug: the stock is not part of the filter.
PrismaWhereIdOnly(row, id, amount) == row.id = id

\* updateMany({ where: { id, stock: { gte: amount } }, ... })
PrismaWhere(row, id, amount) == row.id = id /\ row.stock >= amount

\* data: { stock: { decrement: amount } }
PrismaSet(row, amount) == row.stock - amount

\* .where(and(eq(products.id, id), gte(products.stock, amount)))
DrizzleWhere(row, id, amount) == row.id = id /\ row.stock >= amount

\* .set({ stock: sql`${products.stock} - ${amount}` })
DrizzleSet(row, amount) == row.stock - amount

\* The filter and the assignment of the statement a layer sends.
Where(layer, row, id, amount) ==
  CASE layer = "sql" -> SqlWhere(row, id, amount)
    [] layer = "prisma" -> PrismaWhere(row, id, amount)
    [] layer = "drizzle" -> DrizzleWhere(row, id, amount)

SetStock(layer, row, amount) ==
  CASE layer = "sql" -> SqlSet(row, amount)
    [] layer = "prisma" -> PrismaSet(row, amount)
    [] layer = "drizzle" -> DrizzleSet(row, amount)

\* The rows the filter of a statement selects among the committed rows.
Matching(layer, id, amount) ==
  {p \in ProductIds : Where(layer, ProductsRow(p), id, amount)}

\* Some statement holds the lock of row p: it has updated the row and has
\* not committed.
RowLocked(p) == \E m \in BagToSet(stmts) : m.p = p /\ m.st = "locked"

\* decrementStock(id, amount) is called through a layer, with no explicit
\* transaction: the store takes the statement's snapshot and scans it.  A
\* statement that selects no row ends at once; one that selects a row goes
\* on to lock it.
DecrementStock(layer, id, amount) ==
  /\ issued < MaxStmts
  /\ issued' = issued + 1
  /\ stmts' = stmts (+) SetToBag({[layer |-> layer, id |-> id, amount |-> amount,
                                   p |-> p, st |-> "found"] :
                                     p \in Matching(layer, id, amount)})
  /\ UNCHANGED <<runVars, genVars, stock, orders, orderItems, result>>

\* The statement gets the lock of the row it selected once no other
\* statement holds it.  The store evaluates the filter again on the row as
\* committed by then: if it holds no longer the statement skips the row and
\* ends with zero rows updated.
LockRow(m) ==
  /\ m.st = "found"
  /\ ~RowLocked(m.p)
  /\ stmts' = IF Where(m.layer, ProductsRow(m.p), m.id, m.amount)
               THEN (stmts (-) SetToBag({m})) (+) SetToBag({[m EXCEPT !.st = "locked"]})
               ELSE stmts (-) SetToBag({m})
  /\ UNCHANGED <<runVars, genVars, stock, issued, orders, orderItems, result>>

\* The statement writes the row it locked and, being its own transaction,
\* commits.
CommitStmt(m) ==
  /\ m.st = "locked"
  /\ stock' = [stock EXCEPT ![m.p] = SetStock(m.layer, ProductsRow(m.p), m.amount)]
  /\ stmts' = stmts (-) SetToBag({m})
  /\ UNCHANGED <<runVars, genVars, issued, orders, orderItems, result>>

\* The bulk inserts a completed load of t has submitted.
Batches(t) ==
  IF Batched(t)
  THEN [k \in 1..Ceil(Total(t), BATCH_SIZE) |->
          Slice(Iota(Total(t)), (k - 1) * BATCH_SIZE, k * BATCH_SIZE)]
  ELSE <<Iota(Total(t))>>

\* main() has returned after loading a users, q products and no orders.
Populated(a, q) ==
  /\ BATCH_SIZE = MaxBatch
  /\ target = MkTarget(a, q, 0, 0)
  /\ mainPc = "done"
  /\ pc = [d \in Datasets |-> "done"]
  /\ tix = [d \in Datasets |-> Len(TableOrder(d))]
  /\ i = [d \in Datasets |-> 0]
  /\ params = [d \in Datasets |-> << >>]
  /\ fk = [d \in Datasets |-> << >>]
  /\ tbl = [t \in Tables |-> Iota(Total(t))]
  /\ dbExists = [d \in Datasets |-> TRUE]
  /\ connected = [d \in Datasets |-> FALSE]
  /\ inflight = {}
  /\ sent = [t \in Tables |-> Batches(t)]
  /\ GenOff

\* The products as seed() leaves them: every stock drawn from 1 up.
InitStock ==
  /\ Populated(0, Cardinality(ProductIds))
  /\ stock \in [ProductIds -> 1..MaxStock]
  /\ stmts = EmptyBag
  /\ issued = 0
  /\ orders = << >>
  /\ orderItems = << >>
  /\ result = << >>

NextStock ==
  \/ \E layer \in Layers, id \in ProductIds \cup {0}, amount \in 0..MaxAmount :
       DecrementStock(layer, id, amount)
  \/ \E m \in BagToSet(stmts) :
       \/ LockRow(m)
       \/ CommitStmt(m)

SpecStock == InitStock /\ [][NextStock]_vars

----------------------------------------------------------------------------
\* C22: after any sequence and any interleaving of decrementStock(id, amount)
\* with amount >= 0 through any of the three layers, no product's stock is
\* negative; the stock of a product changes only by a statement for that
\* product's id subtracting its amount while stock >= amount holds at the
\* moment of the update, and is otherwise left unchanged.
C22_Step ==
  /\ \A p \in ProductIds : stock'[p] >= 0
  /\ \A p \in ProductIds :
       stock'[p] # stock[p] =>
         \E m \in BagToSet(stmts) :
           /\ m.id = p
           /\ stock[p] >= m.amount
           /\ stock'[p] = stock[p] - m.amount
           /\ stmts' = stmts (-) SetToBag({m})

C22_StockNeverNegative == [][C22_Step]_vars

\* Two statements for the same product each found enough stock; the first
\* has committed and left less than the second asks for.
C22_Witness ==
  /\ issued = 2
  /\ \E m \in BagToSet(stmts) :
       /\ m.st = "found"
       /\ m.amount > 0
       /\ stock[m.p] < m.amount
       /\ stock[m.p] >= 0

----------------------------------------------------------------------------
\* getOrdersByUser of the three access layers, on the rows of orders,
\* order_items and products.  total_price and the timestamps are left out.

\* The ids of the rows of users.
UserIds == {1, 2}

\* faker.number.int({ min: 1, max: 10 }) for the quantity of an order item.
Quantities == {1, 2}

\* products.name of the product with id p.
ProductName(p) == <<"product", p>>

\* The ids of the orders of a user, ORDER BY id DESC.
OrderIdsDesc(userId) ==
  LET ids == SelectSeq([k \in 1..Len(orders) |-> Len(orders) + 1 - k],
                       LAMBDA o : orders[o].user_id = userId)
  IN  ids

\* The ids of the order items of an order.
ItemIdsOf(orderId) ==
  SelectSeq([k \in 1..Len(orderItems) |-> k],
            LAMBDA n : orderItems[n].order_id = orderId)

\* ... JOIN products p ON p.id = oi.product_id: the items that have a product.
ItemIdsJoined(orderId) ==
  SelectSeq(ItemIdsOf(orderId),
            LAMBDA n : orderItems[n].product_id \in ProductIds)

\* SELECT o.id AS order_id, o.status, p.name AS product, oi.quantity
\* FROM orders o JOIN order_items oi ... JOIN products p ...
\* WHERE o.user_id = $1 ORDER BY o.id DESC: one row per joined order item.
SqlGetOrdersByUser(userId) ==
  LET ids == OrderIdsDesc(userId)
  IN  Flatten([k \in 1..Len(ids) |->
        LET its == ItemIdsJoined(ids[k])
        IN  [j \in 1..Len(its) |->
               [order_id |-> ids[k],
                status |-> orders[ids[k]].status,
                product |-> ProductName(orderItems[its[j]].product_id),
                quantity |-> orderItems[its[j]].quantity]]])

\* db.select({ orderId, status, product, quantity }).from(orders)
\*   .innerJoin(orderItems, ...).innerJoin(products, ...)
\*   .where(eq(orders.userId, userId)).orderBy(desc(orders.id))
DrizzleGetOrdersByUser(userId) ==
  LET ids == OrderIdsDesc(userId)
  IN  Flatten([k \in 1..Len(ids) |->
        LET its == ItemIdsJoined(ids[k])
        IN  [j \in 1..Len(its) |->
               [orderId |-> ids[k],
                status |-> orders[ids[k]].status,
                product |-> ProductName(orderItems[its[j]].product_id),
                quantity |-> orderItems[its[j]].quantity]]])

\* prisma.order.findMany({ where: { userId }, orderBy: { id: "desc" },
\*   include: { items: { include: { product: { select: { name: true } } } } } }):
\* one object per order of the user, its items nested.
PrismaGetOrdersByUser(userId) ==
  LET ids == OrderIdsDesc(userId)
  IN  [k \in 1..Len(ids) |->
        LET its == ItemIdsOf(ids[k])
        IN  [id |-> ids[k],
             userId |-> orders[ids[k]].user_id,
             status |-> orders[ids[k]].status,
             items |-> [j \in 1..Len(its) |->
                          [id |-> its[j],
                           orderId |-> orderItems[its[j]].order_id,
                           productId |-> orderItems[its[j]].product_id,
                           quantity |-> orderItems[its[j]].quantity,
                           product |-> [name |-> ProductName(orderItems[its[j]].product_id)]]]]]

\* No answer of a layer is at hand for the rows as they are.
NoResult == [l \in Layers |-> [userId |-> 0, rows |-> << >>]]

\* main() calls getOrdersByUser of each layer for the same user; the answer
\* of a layer is kept until a row is inserted.
GetOrdersByUser(layer, userId) ==
  /\ result' = [result EXCEPT ![layer] =
                  [userId |-> userId,
                   rows |-> CASE layer = "sql" -> SqlGetOrdersByUser(userId)
                              [] layer = "prisma" -> PrismaGetOrdersByUser(userId)
                              [] layer = "drizzle" -> DrizzleGetOrdersByUser(userId)]]
  /\ UNCHANGED <<runVars, genVars, stock, stmts, issued, orders, orderItems>>

\* insertOrder(userId, totalPrice) of any layer: INSERT INTO orders ...
\* VALUES ($1, $2, 'pending'); the store refuses a user_id that is not the
\* id of a user.
InsertOrder(layer, userId) ==
  /\ issued < MaxStmts
  /\ userId \in UserIds
  /\ issued' = issued + 1
  /\ orders' = Append(orders, [user_id |-> userId, status |-> "pending"])
  /\ result' = NoResult
  /\ UNCHANGED <<runVars, genVars, stock, stmts, orderItems>>

\* insertOrderItem(orderId, productId, quantity) of any layer; the store
\* refuses an order_id or a product_id that references no row.
InsertOrderItem(layer, orderId, productId, quantity) ==
  /\ issued < MaxStmts
  /\ orderId \in 1..Len(orders)
  /\ productId \in ProductIds
  /\ issued' = issued + 1
  /\ orderItems' = Append(orderItems, [order_id |-> orderId,
                                        product_id |-> productId,
                                        quantity |-> quantity])
  /\ result' = NoResult
  /\ UNCHANGED <<runVars, genVars, stock, stmts, orders>>

InitOrders ==
  /\ Populated(Cardinality(UserIds), Cardinality(ProductIds))
  /\ stock \in [ProductIds -> {1}]
  /\ stmts = EmptyBag
  /\ issued = 0
  /\ orders = << >>
  /\ orderItems = << >>
  /\ result = NoResult

NextOrders ==
  \/ \E layer \in Layers, userId \in UserIds : GetOrdersByUser(layer, userId)
  \/ \E layer \in Layers, userId \in UserIds : InsertOrder(layer, userId)
  \/ \E layer \in Layers, orderId \in 1..MaxStmts, productId \in ProductIds,
        quantity \in Quantities :
       InsertOrderItem(layer, orderId, productId, quantity)

SpecOrders == InitOrders /\ [][NextOrders]_vars

----------------------------------------------------------------------------
\* C23: for every state of the tables and every user id, getOrdersByUser of
\* raw SQL, of Drizzle and of Prisma return the same set of orders of that
\* user, with the same (order, product, quantity) item details, also when
\* the user has an order with no order items.
C23_Orders(layer) ==
  LET rows == result[layer].rows
  IN  CASE layer = "sql" -> {rows[k].order_id : k \in DOMAIN rows}
        [] layer = "drizzle" -> {rows[k].orderId : k \in DOMAIN rows}
        [] layer = "prisma" -> {rows[k].id : k \in DOMAIN rows}

C23_Details(layer) ==
  LET rows == result[layer].rows
      flat == CASE layer = "sql" ->
                     [k \in DOMAIN rows |->
                        <<rows[k].order_id, rows[k].product, rows[k].quantity>>]
                [] layer = "drizzle" ->
                     [k \in DOMAIN rows |->
                        <<rows[k].orderId, rows[k].product, rows[k].quantity>>]
                [] layer = "prisma" ->
                     Flatten([k \in DOMAIN rows |->
                        [j \in DOMAIN rows[k].items |->
                           <<rows[k].id, rows[k].items[j].product.name,
                             rows[k].items[j].quantity>>]])
  IN  {<<flat[k], Cardinality({n \in DOMAIN flat : flat[n] = flat[k]})>> :
         k \in DOMAIN flat}

C23_SameAnswer ==
  \A a, b \in Layers :
    result[a].userId # 0 /\ result[a].userId = result[b].userId =>
      /\ C23_Orders(a) = C23_Orders(b)
      /\ C23_Details(a) = C23_Details(b)

====
